---- MODULE Spec2Model ----
(***************************************************************************)
(* Model of .github/scripts/review.py: the multi-provider review pipeline. *)
(*                                                                         *)
(* Text is a sequence of tokens; a token is a literal piece of a Python    *)
(* string (one character, a literal prefix of a secret pattern, a fixed    *)
(* piece of an f-string).  The regular expressions of redact_secrets are   *)
(* matched token by token with Python's backtracking, greedy semantics;    *)
(* their repetition counts are counted in tokens and are scaled down       *)
(* ({16,} -> 2, {36,} -> 3, {32,} -> 3, {24,} -> 2, {35} -> 3).            *)
(***************************************************************************)
EXTENDS Integers, Sequences, FiniteSets, TLC

(***************************************************************************)
(* Bounds of the model.                                                    *)
(***************************************************************************)
MaxFrags == 3
MaxComments == 2
MaxFiles == 1
MaxThreshold == 1

(***************************************************************************)
(* Sequence helpers.                                                       *)
(***************************************************************************)
Range(s) == {s[i] : i \in 1..Len(s)}

Min2(a, b) == IF a <= b THEN a ELSE b

\* sep.join(ss) of Python, on token sequences.
RECURSIVE Join(_, _)
Join(sep, ss) ==
    IF ss = <<>> THEN <<>>
    ELSE IF Len(ss) = 1 THEN ss[1]
    ELSE ss[1] \o sep \o Join(sep, Tail(ss))

\* s occurs in t as a contiguous run of tokens.
Occurs(s, t) ==
    \E i \in 0..(Len(t) - Len(s)) : \A k \in 1..Len(s) : t[i + k] = s[k]

(***************************************************************************)
(* redact_secrets: character classes, patterns, re.sub.                    *)
(***************************************************************************)
REDACTED_TEXT == "[REDACTED_SECRET]"

\* Tokens all of whose characters lie in [0-9A-Z].
UpperDigit == {"AKIA", "7"}
\* [0-9a-zA-Z]
Alnum == UpperDigit \cup {"x", "sk", "rk", "pk", "xoxb", "live", "test", "Bearer", "AIza",
                         "main", "deps"}
\* [0-9a-zA-Z-]
AlnumDash == Alnum \cup {"-"}
\* [a-zA-Z0-9_-] and [0-9A-Za-z-_]
WordDash == AlnumDash \cup {"_", "ghp_", "ghs_"}
\* \s
Space == {" ", "\n\n"}

Unbounded == 1000

Lit(tok) == [cls |-> {tok}, min |-> 1, max |-> 1]
Rep(c, lo, hi) == [cls |-> c, min |-> lo, max |-> hi]

\* A pattern is a sequence of elements, each a class repeated min..max times.
secret_patterns ==
    << << Lit("AKIA"), Rep(UpperDigit, 2, Unbounded) >>,
       << Lit("ghp_"), Rep(Alnum, 3, Unbounded) >>,
       << Lit("ghs_"), Rep(Alnum, 3, Unbounded) >>,
       << Lit("xoxb"), Lit("-"), Rep(AlnumDash, 1, Unbounded) >>,
       << Lit("sk"), Lit("-"), Rep(Alnum, 3, Unbounded) >>,
       << Rep({"rk", "sk"}, 1, 1), Lit("_"), Rep({"live", "test"}, 1, 1), Lit("_"),
          Rep(Alnum, 2, Unbounded) >>,
       << Lit("Bearer"), Rep(Space, 1, Unbounded), Rep(WordDash, 1, Unbounded), Lit("."),
          Rep(WordDash, 1, Unbounded), Lit("."), Rep(WordDash, 1, Unbounded) >>,
       << Lit("pk"), Lit("-"), Rep(Alnum, 2, Unbounded) >>,
       << Lit("AIza"), Rep(WordDash, 3, 3) >> >>

\* Number of consecutive tokens of toks, from position k on, that lie in cls.
RECURSIVE RunLen(_, _, _)
RunLen(cls, toks, k) ==
    IF k > Len(toks) \/ toks[k] \notin cls THEN 0
    ELSE 1 + RunLen(cls, toks, k + 1)

\* The backtracking matcher: element ei of pat is tried at position k with n
\* repetitions, the largest n first; the result is the position after the match,
\* or 0 when there is none.
RECURSIVE MatchFrom(_, _, _, _), TryCount(_, _, _, _, _)
MatchFrom(pat, ei, toks, k) ==
    IF ei > Len(pat) THEN k
    ELSE LET el == pat[ei]
             hi == Min2(RunLen(el.cls, toks, k), el.max)
         IN  IF hi < el.min THEN 0 ELSE TryCount(pat, ei, toks, k, hi)
TryCount(pat, ei, toks, k, n) ==
    LET r == MatchFrom(pat, ei + 1, toks, k + n)
    IN  IF r # 0 THEN r
        ELSE IF n > pat[ei].min THEN TryCount(pat, ei, toks, k, n - 1)
        ELSE 0

\* Tagged text: each token carries the position it had in the input of
\* redact_secrets (0 for an inserted sentinel); the matcher reads only tok.
Tag(text) == [i \in 1..Len(text) |-> [tok |-> text[i], src |-> i]]
Toks(tagged) == [i \in 1..Len(tagged) |-> tagged[i].tok]

\* Mutant: only the first match is replaced (re.sub with count=1).
RECURSIVE SubFrom_first(_, _, _)
SubFrom_first(pat, tagged, k) ==
    IF k > Len(tagged) THEN <<>>
    ELSE LET e == MatchFrom(pat, 1, Toks(tagged), k)
         IN  IF e # 0
             THEN << [tok |-> REDACTED_TEXT, src |-> 0] >> \o SubSeq(tagged, e, Len(tagged))
             ELSE << tagged[k] >> \o SubFrom_first(pat, tagged, k + 1)

\* re.sub(pattern, REDACTED_TEXT, text): leftmost non-overlapping matches,
\* scanning from position k.
RECURSIVE SubFrom(_, _, _)
SubFrom(pat, tagged, k) ==
    IF k > Len(tagged) THEN <<>>
    ELSE LET e == MatchFrom(pat, 1, Toks(tagged), k)
         IN  IF e # 0
             THEN << [tok |-> REDACTED_TEXT, src |-> 0] >> \o SubFrom(pat, tagged, e)
             ELSE << tagged[k] >> \o SubFrom(pat, tagged, k + 1)

re_sub(pat, tagged) == SubFrom(pat, tagged, 1)

\* for pattern in secret_patterns: diff_text = re.sub(pattern, REDACTED_TEXT, diff_text)
RECURSIVE RedactLoop(_, _)
RedactLoop(i, tagged) ==
    IF i > Len(secret_patterns) THEN tagged
    ELSE RedactLoop(i + 1, re_sub(secret_patterns[i], tagged))

RedactTagged(diff_text) == RedactLoop(1, Tag(diff_text))

redact_secrets(diff_text) == Toks(RedactTagged(diff_text))

(***************************************************************************)
(* The pipeline: configuration, thread, providers.                         *)
(***************************************************************************)
VARIABLES
    small_diff_threshold,   \* CONFIG.small_diff_threshold
    flash_only_max_tokens,  \* CONFIG.flash_only_max_tokens
    pc,                     \* position of main
    error,                  \* the exception main ended with, or "none"
    thread,                 \* the comments of the pull request, live or deleted
    raw_diff_text,          \* main: raw_diff_text
    clean_diff,             \* main: clean_diff
    is_ok,                  \* main: is_ok
    token_count,            \* main: token_count
    invoked,                \* select_and_run_models: the coroutines given to gather
    tasks,                  \* the outcome of each coroutine of gather
    results,                \* main: results
    summary_report,         \* main: summary_report
    final_comment,          \* main: final_comment
    comments,               \* main: comments (the enumeration being iterated)
    idx,                    \* position of the for loop over comments
    calls,                  \* calls made to the outside so far, per operation
    deletes,                \* the comment.delete() calls made: comment id, success
    summarizer_outcome,     \* what the summarizer backend did: "none", "ok", "fail"
    env_missing,            \* the required environment variables that are not set
    thread0,                \* the thread as it was when main started
    pr_files,               \* get_diff: files, until get_diff returns
    payloads,               \* the user text of the request sent to each backend
    summarizer_input        \* summarize_reviews: combined_text as sent

vars == << small_diff_threshold, flash_only_max_tokens, pc, error, thread, raw_diff_text,
           clean_diff, is_ok, token_count, invoked, tasks, results, summary_report,
           final_comment, comments, idx, calls, deletes, summarizer_outcome,
           env_missing, thread0, pr_files, payloads, summarizer_input >>

Providers == {"gemini", "openai", "claude"}

required == {"GITHUB_TOKEN", "GEMINI_API_KEY", "OPENAI_API_KEY", "ANTHROPIC_API_KEY"}

\* len(text) of Python: the number of characters of each token.
CharLen(tok) ==
    CASE tok = "x" -> 1
      [] tok = "7" -> 1
      [] tok = "-" -> 1
      [] tok = "_" -> 1
      [] tok = "." -> 1
      [] tok = " " -> 1
      [] tok = "sk" -> 2
      [] tok = "rk" -> 2
      [] tok = "pk" -> 2
      [] tok = "\n\n" -> 2
      [] tok = "AKIA" -> 4
      [] tok = "AIza" -> 4
      [] tok = "xoxb" -> 4
      [] tok = "ghp_" -> 4
      [] tok = "ghs_" -> 4
      [] tok = "live" -> 4
      [] tok = "test" -> 4
      [] tok = "main" -> 4
      [] tok = "deps" -> 4
      [] tok = ".env" -> 4
      [] tok = ".py" -> 3
      [] tok = ".lock" -> 5
      [] tok = "Bearer" -> 6
      [] tok = "+    return\n" -> 12
      [] tok = "File: " -> 6
      [] tok = "\nDiff:\n" -> 7
      [] tok = REDACTED_TEXT -> 17

RECURSIVE TextLen(_)
TextLen(text) == IF text = <<>> THEN 0 ELSE CharLen(Head(text)) + TextLen(Tail(text))

(***************************************************************************)
(* get_diff                                                                *)
(***************************************************************************)
\* A file name is a sequence of tokens; it ends with a suffix when its last
\* token is the suffix.
files_to_exclude == {".env", ".env.local", "secrets.yaml"}
excluded_extensions == {".lock", ".png", ".jpg", ".svg"}

endswith(filename, suffixes) == filename # <<>> /\ filename[Len(filename)] \in suffixes

\* Mutant: a file without a patch is not skipped.
RECURSIVE get_diff_nopatch(_)
get_diff_nopatch(files) ==
    IF files = <<>> THEN <<>>
    ELSE LET file == Head(files)
             rest == get_diff_nopatch(Tail(files))
         IN  IF endswith(file.filename, files_to_exclude) THEN rest
             ELSE IF endswith(file.filename, excluded_extensions) THEN rest
             ELSE << "File: " >> \o file.filename \o << "\nDiff:\n" >> \o file.patch
                      \o << "\n\n" >> \o rest

RECURSIVE get_diff(_)
get_diff(files) ==
    IF files = <<>> THEN <<>>
    ELSE LET file == Head(files)
             rest == get_diff(Tail(files))
         IN  IF endswith(file.filename, files_to_exclude) THEN rest
             ELSE IF endswith(file.filename, excluded_extensions) THEN rest
             ELSE IF file.patch = <<>> THEN rest
             ELSE << "File: " >> \o file.filename \o << "\nDiff:\n" >> \o file.patch
                      \o << "\n\n" >> \o rest

(***************************************************************************)
(* check_diff_size                                                         *)
(***************************************************************************)
EstimateTokens(diff_text) == TextLen(diff_text) \div 3

\* Mutant: the size is never refused.
check_diff_size_never(diff_text, flash_max) == << TRUE, EstimateTokens(diff_text) >>

check_diff_size(diff_text, flash_max) ==
    LET count == EstimateTokens(diff_text)
    IN  IF count > flash_max THEN << FALSE, count >> ELSE << TRUE, count >>

(***************************************************************************)
(* ask_gemini, ask_openai, ask_claude                                      *)
(***************************************************************************)
Label(p) ==
    CASE p = "gemini" -> "## Gemini\n"
      [] p = "openai" -> "## ChatGPT\n"
      [] p = "claude" -> "## Claude\n"

ErrorLabel(p) ==
    CASE p = "gemini" -> "## Gemini (Error)\n"
      [] p = "openai" -> "## ChatGPT (Error)\n"
      [] p = "claude" -> "## Claude (Error)\n"

ReviewText(p) ==
    CASE p = "gemini" -> "gemini review text"
      [] p = "openai" -> "openai review text"
      [] p = "claude" -> "claude review text"

ErrorDetail(p) ==
    CASE p = "gemini" -> "gemini error detail"
      [] p = "openai" -> "openai error detail"
      [] p = "claude" -> "claude error detail"

Str(text) == [kind |-> "str", text |-> text]
Exc(name) == [kind |-> "exc", text |-> << name >>]
Pending == [kind |-> "pending", text |-> <<>>]
Hung == [kind |-> "hung", text |-> <<>>]

\* What the backend does with the one request of a call.
Outcomes == {"ok", "error", "escalation", "hang"}

\* The value the coroutine ends with: a returned string, or a raised exception
\* (the APIError branch re-raises), which gather hands back as an object.
\* The request carries no timeout and is not awaited: while the backend does
\* not answer, the coroutine does not end and holds the event loop.
ask(p, outcome) ==
    CASE outcome = "ok" -> Str(<< Label(p), ReviewText(p) >>)
      [] outcome = "error" -> Str(<< ErrorLabel(p), ErrorDetail(p) >>)
      [] outcome = "escalation" -> Exc("APIError")
      [] outcome = "hang" -> Hung

\* The user text of the request: the f-string around diff_text.
UserContent(diff_text) == << "Review this diff:\n---\n" >> \o diff_text \o << "\n---" >>

\* Mutant: the request is built from the text before redaction.
AskDiff_raw(raw, clean) == raw

\* The diff_text main hands to select_and_run_models, which hands it to ask_*.
AskDiff(raw, clean) == clean

(***************************************************************************)
(* select_and_run_models                                                   *)
(***************************************************************************)
\* Mutant: the first comparison strict.
SelectProviders_strict(count, small, flash) ==
    IF count < small THEN << "gemini", "openai", "claude" >>
    ELSE IF count <= flash THEN << "gemini" >>
    ELSE <<>>

\* The coroutines handed to asyncio.gather, in argument order.
SelectProviders(count, small, flash) ==
    IF count <= small THEN << "gemini", "openai", "claude" >>
    ELSE IF count <= flash THEN << "gemini" >>
    ELSE <<>>

CostMessage(count) == Str(<< "DIFF size ", ToString(count), " tokens: Gemini only" >>)

\* Mutant: the message is not appended.
ResultsRaw_nomessage(inv, done, count, small, flash) ==
    IF count <= flash THEN [i \in 1..Len(inv) |-> done[inv[i]]] ELSE <<>>

\* results_raw: the gathered values in argument order, then the message.
ResultsRaw(inv, done, count, small, flash) ==
    LET gathered == [i \in 1..Len(inv) |-> done[inv[i]]]
    IN  IF count <= small THEN gathered
        ELSE IF count <= flash THEN Append(gathered, CostMessage(count))
        ELSE <<>>

\* Mutant: the first exception ends the list.
RECURSIVE FilterExceptions_stop(_)
FilterExceptions_stop(rs) ==
    IF rs = <<>> THEN <<>>
    ELSE IF Head(rs).kind = "exc" THEN <<>>
    ELSE << Head(rs) >> \o FilterExceptions_stop(Tail(rs))

\* [r for r in results_raw if not isinstance(r, Exception)]
RECURSIVE FilterExceptions(_)
FilterExceptions(rs) ==
    IF rs = <<>> THEN <<>>
    ELSE IF Head(rs).kind = "exc" THEN FilterExceptions(Tail(rs))
    ELSE << Head(rs) >> \o FilterExceptions(Tail(rs))

SelectReturn(inv, done, count, small, flash) ==
    FilterExceptions(ResultsRaw(inv, done, count, small, flash))

(***************************************************************************)
(* summarize_reviews, create_final_comment                                 *)
(***************************************************************************)
HEADER_IDENTIFIER == "# Integrated AI review"
Separator == << "\n\n---\n\n" >>

Texts(rs) == [i \in 1..Len(rs) |-> rs[i].text]

\* combined_text
CombinedText(all_results) == Join(Separator, Texts(all_results))

\* Mutant: the fallback text has no header.
summarize_reviews_noheader(all_results, outcome) ==
    IF outcome = "ok"
    THEN << HEADER_IDENTIFIER, " (by summarizer model)\n\n", "summary text" >>
    ELSE << "summarizer error detail", "\n\n" >> \o CombinedText(all_results)

\* Mutant: the fallback joins all results but the last.
summarize_reviews_droplast(all_results, outcome) ==
    IF outcome = "ok"
    THEN << HEADER_IDENTIFIER, " (by summarizer model)\n\n", "summary text" >>
    ELSE << HEADER_IDENTIFIER, " (Error)\n", "summarizer error detail", "\n\n" >>
             \o CombinedText(SubSeq(all_results, 1, Len(all_results) - 1))

summarize_reviews(all_results, outcome) ==
    IF outcome = "ok"
    THEN << HEADER_IDENTIFIER, " (by summarizer model)\n\n", "summary text" >>
    ELSE << HEADER_IDENTIFIER, " (Error)\n", "summarizer error detail", "\n\n" >>
             \o CombinedText(all_results)

create_final_comment(summary, individual_results) ==
    summary \o << "\n\n", "<details>", "## individual results\n" >>
            \o Join(Separator, Texts(individual_results)) \o << "</details>" >>

TooLargeComment(count) == << "WARNING: DIFF too large ", ToString(count), " tokens, skipped" >>
AllFailedComment == << "FATAL: all AI services failed" >>

(***************************************************************************)
(* Inputs.                                                                 *)
(***************************************************************************)
RECURSIVE Pad(_)
Pad(n) == IF n = 0 THEN <<>> ELSE << "x" >> \o Pad(n - 1)

\* A patch line that no pattern of secret_patterns touches.
Line == "+    return\n"

SecretPatch == << "AKIA", "7", "7" >>

\* The files pr.get_files() can list.
FileChoices ==
    { [filename |-> << "main", ".py" >>, patch |-> << Line >> \o Pad(2)],
      [filename |-> << "main", ".py" >>, patch |-> SecretPatch],
      [filename |-> << "main", ".py" >>, patch |-> <<>>],
      [filename |-> << ".env" >>, patch |-> Pad(1)],
      [filename |-> << "deps", ".lock" >>, patch |-> Pad(1)] }

SeqsUpTo(S, n) == UNION {[1..k -> S] : k \in 0..n}

FileLists == SeqsUpTo(FileChoices, MaxFiles)

\* The smallest estimate a non-empty diff can have.
MinTokens == EstimateTokens(get_diff(<< [filename |-> << "main", ".py" >>, patch |-> << Line >> \o Pad(2)] >>))

ThresholdChoices == MinTokens..(MinTokens + MaxThreshold)

OldReport == << HEADER_IDENTIFIER, " (by summarizer model)\n\n", "old summary text" >>
BodyChoices == { OldReport, << "LGTM" >>, <<>> }

InitialThreads ==
    { [i \in 1..Len(bs) |-> [id |-> i, body |-> bs[i], live |-> TRUE]] :
        bs \in SeqsUpTo(BodyChoices, MaxComments) }

Ops == Providers \cup {"summarizer", "create_issue_comment", "delete", "get_files",
                       "get_issue_comments", "get_repo"}

(***************************************************************************)
(* Initial state: the configuration is loaded, the thread has its earlier  *)
(* comments, main has not started.                                         *)
(***************************************************************************)
Init ==
    /\ small_diff_threshold \in ThresholdChoices
    /\ flash_only_max_tokens \in ThresholdChoices
    /\ thread \in InitialThreads
    /\ pc = "start"
    /\ error = "none"
    /\ raw_diff_text = <<>>
    /\ clean_diff = <<>>
    /\ is_ok = FALSE
    /\ token_count = 0
    /\ invoked = <<>>
    /\ tasks = [p \in Providers |-> Pending]
    /\ results = <<>>
    /\ summary_report = <<>>
    /\ final_comment = <<>>
    /\ comments = <<>>
    /\ idx = 0
    /\ calls = [o \in Ops |-> 0]
    /\ deletes = {}
    /\ summarizer_outcome = "none"
    /\ env_missing \in SUBSET required
    /\ thread0 = thread
    /\ pr_files = <<>>
    /\ payloads = [p \in Providers |-> <<>>]
    /\ summarizer_input = <<>>

Called(o) == calls' = [calls EXCEPT ![o] = @ + 1]

\* Mutant: the comment is created twice.
Post_twice(body) ==
    /\ thread' = thread \o << [id |-> Len(thread) + 1, body |-> body, live |-> TRUE],
                              [id |-> Len(thread) + 2, body |-> body, live |-> TRUE] >>
    /\ calls' = [calls EXCEPT !["create_issue_comment"] = @ + 2]

\* pr.create_issue_comment(body)
Post(body) ==
    /\ thread' = Append(thread, [id |-> Len(thread) + 1, body |-> body, live |-> TRUE])
    /\ Called("create_issue_comment")

(***************************************************************************)
(* main                                                                    *)
(***************************************************************************)
\* Mutant: only the source-control credential is looked at.
validate_env_vars_token(unset) == unset \cap {"GITHUB_TOKEN"}

\* missing = [k for k in required if not os.getenv(k)]
validate_env_vars(unset) == {k \in required : k \in unset}

\* validate_env_vars(): raise EnvironmentError naming the missing variables
ValidateEnv ==
    /\ pc = "start"
    /\ LET missing == validate_env_vars(env_missing)
       IN  IF missing # {}
           THEN /\ error' = [type |-> "EnvironmentError", missing |-> missing]
                /\ pc' = "crashed"
           ELSE /\ pc' = "setup"
                /\ UNCHANGED error
    /\ UNCHANGED << small_diff_threshold, flash_only_max_tokens, thread, raw_diff_text,
                    clean_diff, is_ok, token_count, invoked, tasks, results,
                    summary_report, final_comment, comments, idx, calls, deletes,
                    summarizer_outcome,
                    env_missing, thread0, pr_files, payloads, summarizer_input >>

\* g.get_repo(...), the event file, exit() when the event is no pull request
Setup ==
    /\ pc = "setup"
    /\ Called("get_repo")
    /\ \E is_pull_request \in BOOLEAN :
         pc' = IF is_pull_request THEN "get_diff" ELSE "done"
    /\ UNCHANGED << small_diff_threshold, flash_only_max_tokens, error, thread,
                    raw_diff_text, clean_diff, is_ok, token_count, invoked, tasks,
                    results, summary_report, final_comment, comments, idx, deletes,
                    summarizer_outcome,
                    env_missing, thread0, pr_files, payloads, summarizer_input >>

\* get_diff: files = pr.get_files()
GetFiles ==
    /\ pc = "get_diff"
    /\ Called("get_files")
    /\ pr_files' \in FileLists
    /\ pc' = "build_diff"
    /\ UNCHANGED << small_diff_threshold, flash_only_max_tokens, error, thread,
                    raw_diff_text, clean_diff, is_ok, token_count, invoked, tasks,
                    results, summary_report, final_comment, comments, idx, deletes,
                    summarizer_outcome,
                    env_missing, thread0, payloads, summarizer_input >>

\* get_diff: the loop over files; raw_diff_text = get_diff(pr); return when
\* it is empty
GetDiff ==
    /\ pc = "build_diff"
    /\ raw_diff_text' = get_diff(pr_files)
    /\ pr_files' = <<>>
    /\ pc' = IF raw_diff_text' = <<>> THEN "done" ELSE "redact"
    /\ UNCHANGED << small_diff_threshold, flash_only_max_tokens, error, thread,
                    clean_diff, is_ok, token_count, invoked, tasks, results,
                    summary_report, final_comment, comments, idx, calls, deletes,
                    summarizer_outcome,
                    env_missing, thread0, payloads, summarizer_input >>

\* clean_diff = redact_secrets(raw_diff_text); is_ok, token_count = check_diff_size(...)
Redact ==
    /\ pc = "redact"
    /\ clean_diff' = redact_secrets(raw_diff_text)
    /\ is_ok' = check_diff_size(clean_diff', flash_only_max_tokens)[1]
    /\ token_count' = check_diff_size(clean_diff', flash_only_max_tokens)[2]
    /\ pc' = "checked"
    /\ UNCHANGED << small_diff_threshold, flash_only_max_tokens, error, thread,
                    raw_diff_text, invoked, tasks, results, summary_report,
                    final_comment, comments, idx, calls, deletes,
                    summarizer_outcome,
                    env_missing, thread0, pr_files, payloads, summarizer_input >>

\* if not is_ok: pr.create_issue_comment(warning); return
RejectTooLarge ==
    /\ pc = "checked"
    /\ ~is_ok
    /\ Post(TooLargeComment(token_count))
    /\ pc' = "done"
    /\ UNCHANGED << small_diff_threshold, flash_only_max_tokens, error, raw_diff_text,
                    clean_diff, is_ok, token_count, invoked, tasks, results,
                    summary_report, final_comment, comments, idx, deletes,
                    summarizer_outcome,
                    env_missing, thread0, pr_files, payloads, summarizer_input >>

\* select_and_run_models up to asyncio.gather: the branch on token_count
SelectModels ==
    /\ pc = "checked"
    /\ is_ok
    /\ invoked' = SelectProviders(token_count, small_diff_threshold, flash_only_max_tokens)
    /\ pc' = "gather"
    /\ UNCHANGED << small_diff_threshold, flash_only_max_tokens, error, thread,
                    raw_diff_text, clean_diff, is_ok, token_count, tasks, results,
                    summary_report, final_comment, comments, idx, calls, deletes,
                    summarizer_outcome,
                    env_missing, thread0, pr_files, payloads, summarizer_input >>

\* One coroutine of gather runs: one request to its backend.
Ask(p) ==
    /\ pc = "gather"
    /\ p \in Range(invoked)
    /\ tasks[p] = Pending
    /\ \A q \in Providers : tasks[q] # Hung
    /\ \E outcome \in Outcomes : tasks' = [tasks EXCEPT ![p] = ask(p, outcome)]
    /\ payloads' = [payloads EXCEPT ![p] = UserContent(AskDiff(raw_diff_text, clean_diff))]
    /\ Called(p)
    /\ UNCHANGED << small_diff_threshold, flash_only_max_tokens, pc, error, thread,
                    raw_diff_text, clean_diff, is_ok, token_count, invoked, results,
                    summary_report, final_comment, comments, idx, deletes,
                    summarizer_outcome,
                    env_missing, thread0, pr_files, summarizer_input >>

ask_gemini == Ask("gemini")
ask_openai == Ask("openai")
ask_claude == Ask("claude")

\* gather returns when every coroutine has ended; the rest of
\* select_and_run_models; results = await select_and_run_models(...)
\* Mutant: gather returns with the first coroutine that has ended.
GatherDone_first(inv, done) ==
    inv = <<>> \/ \E p \in Range(inv) : done[p].kind \in {"str", "exc"}

\* asyncio.gather(..., return_exceptions=True) returns when every coroutine
\* has ended, by return or by exception.
GatherDone(inv, done) == \A p \in Range(inv) : done[p].kind \in {"str", "exc"}

GatherReturn ==
    /\ pc = "gather"
    /\ GatherDone(invoked, tasks)
    /\ results' = SelectReturn(invoked, tasks, token_count, small_diff_threshold,
                               flash_only_max_tokens)
    /\ pc' = "selected"
    /\ UNCHANGED << small_diff_threshold, flash_only_max_tokens, error, thread,
                    raw_diff_text, clean_diff, is_ok, token_count, invoked, tasks,
                    summary_report, final_comment, comments, idx, calls, deletes,
                    summarizer_outcome,
                    env_missing, thread0, pr_files, payloads, summarizer_input >>

\* if not results: pr.create_issue_comment(fatal notice); return
PostAllFailed ==
    /\ pc = "selected"
    /\ results = <<>>
    /\ Post(AllFailedComment)
    /\ pc' = "done"
    /\ UNCHANGED << small_diff_threshold, flash_only_max_tokens, error, raw_diff_text,
                    clean_diff, is_ok, token_count, invoked, tasks, results,
                    summary_report, final_comment, comments, idx, deletes,
                    summarizer_outcome,
                    env_missing, thread0, pr_files, payloads, summarizer_input >>

\* summary_report = await summarize_reviews(results);
\* final_comment = create_final_comment(summary_report, results)
Summarize ==
    /\ pc = "selected"
    /\ results # <<>>
    /\ \E outcome \in {"ok", "fail"} :
         /\ summarizer_outcome' = outcome
         /\ summary_report' = summarize_reviews(results, outcome)
         /\ final_comment' = create_final_comment(summary_report', results)
    /\ summarizer_input' = CombinedText(results)
    /\ Called("summarizer")
    /\ pc' = "publish"
    /\ UNCHANGED << small_diff_threshold, flash_only_max_tokens, error, thread,
                    raw_diff_text, clean_diff, is_ok, token_count, invoked, tasks,
                    results, comments, idx, deletes,
                    env_missing, thread0, pr_files, payloads >>

Live(th) == {i \in 1..Len(th) : th[i].live}

\* comments = pr.get_issue_comments(): the live comments, in order
RECURSIVE LiveComments(_)
LiveComments(th) ==
    IF th = <<>> THEN <<>>
    ELSE IF Head(th).live THEN << Head(th) >> \o LiveComments(Tail(th))
    ELSE LiveComments(Tail(th))

ListComments ==
    /\ pc = "publish"
    /\ comments' = LiveComments(thread)
    /\ idx' = 1
    /\ Called("get_issue_comments")
    /\ pc' = "deleting"
    /\ UNCHANGED << small_diff_threshold, flash_only_max_tokens, error, thread,
                    raw_diff_text, clean_diff, is_ok, token_count, invoked, tasks,
                    results, summary_report, final_comment, deletes,
                    summarizer_outcome,
                    env_missing, thread0, pr_files, payloads, summarizer_input >>

\* Mutant: every comment with a body counts as a report.
HasMarker_any(body) == body # <<>>

\* comment.body and HEADER_IDENTIFIER in comment.body
HasMarker(body) == body # <<>> /\ HEADER_IDENTIFIER \in Range(body)

\* Mutant: a failed deletion leaves the loop.
AfterDelete_break(i, deleted, n) == IF deleted THEN i + 1 ELSE n + 1

\* The position of the loop after the iteration at i: an exception of
\* comment.delete() is caught inside the loop body, the loop goes on.
AfterDelete(i, deleted, n) == i + 1

\* One iteration of the for loop: comment.delete() inside try/except.
DeleteLoop ==
    /\ pc = "deleting"
    /\ idx <= Len(comments)
    /\ IF HasMarker(comments[idx].body)
       THEN /\ Called("delete")
            /\ \E deleted \in BOOLEAN :
                 /\ thread' = IF deleted
                              THEN [thread EXCEPT ![comments[idx].id].live = FALSE]
                              ELSE thread
                 /\ deletes' = deletes \cup {[id |-> comments[idx].id, ok |-> deleted]}
                 /\ idx' = AfterDelete(idx, deleted, Len(comments))
       ELSE /\ idx' = idx + 1
            /\ UNCHANGED << thread, calls, deletes >>
    /\ UNCHANGED << small_diff_threshold, flash_only_max_tokens, pc, error,
                    raw_diff_text, clean_diff, is_ok, token_count, invoked, tasks,
                    results, summary_report, final_comment, comments,
                    summarizer_outcome,
                    env_missing, thread0, pr_files, payloads, summarizer_input >>

\* pr.create_issue_comment(final_comment)
PostReport ==
    /\ pc = "deleting"
    /\ idx > Len(comments)
    /\ Post(final_comment)
    /\ pc' = "done"
    /\ UNCHANGED << small_diff_threshold, flash_only_max_tokens, error, raw_diff_text,
                    clean_diff, is_ok, token_count, invoked, tasks, results,
                    summary_report, final_comment, comments, idx, deletes,
                    summarizer_outcome,
                    env_missing, thread0, pr_files, payloads, summarizer_input >>

(***************************************************************************)
(* redact_secrets alone, on texts put together from pieces of secrets.     *)
(***************************************************************************)
Fragments ==
    { << "AKIA", "7", "7" >>, << "sk", "-" >>, << "sk", "_", "test", "_" >>,
      << "AIza" >>, << "Bearer", " " >>, << "x", ".", "x", "." >>,
      << "x" >>, << "x", "x" >>, << "7" >>, << " " >> }

RECURSIVE Flatten(_)
Flatten(ss) == IF ss = <<>> THEN <<>> ELSE Head(ss) \o Flatten(Tail(ss))

RedactInputs == {Flatten(fs) : fs \in SeqsUpTo(Fragments, MaxFrags)}

InitRedact ==
    /\ small_diff_threshold = MinTokens
    /\ flash_only_max_tokens = MinTokens
    /\ thread = <<>>
    /\ pc = "redact"
    /\ error = "none"
    /\ raw_diff_text \in RedactInputs
    /\ clean_diff = <<>>
    /\ is_ok = FALSE
    /\ token_count = 0
    /\ invoked = <<>>
    /\ tasks = [p \in Providers |-> Pending]
    /\ results = <<>>
    /\ summary_report = <<>>
    /\ final_comment = <<>>
    /\ comments = <<>>
    /\ idx = 0
    /\ calls = [o \in Ops |-> 0]
    /\ deletes = {}
    /\ summarizer_outcome = "none"
    /\ env_missing = {}
    /\ thread0 = thread
    /\ pr_files = <<>>
    /\ payloads = [p \in Providers |-> <<>>]
    /\ summarizer_input = <<>>

NextRedact == Redact

SpecRedact == InitRedact /\ [][NextRedact]_vars

Next ==
    \/ ValidateEnv
    \/ Setup
    \/ GetFiles
    \/ GetDiff
    \/ Redact
    \/ RejectTooLarge
    \/ SelectModels
    \/ ask_gemini
    \/ ask_openai
    \/ ask_claude
    \/ GatherReturn
    \/ PostAllFailed
    \/ Summarize
    \/ ListComments
    \/ DeleteLoop
    \/ PostReport

Spec == Init /\ [][Next]_vars

(***************************************************************************)
(* Vocabulary of the properties.                                           *)
(***************************************************************************)
\* The estimate of the sanitized diff.
Count == EstimateTokens(clean_diff)

\* The run has sanitized the diff and estimated its size.
Sized == pc \in {"checked", "gather", "selected", "publish", "deleting"}
            \/ (pc = "done" /\ raw_diff_text # <<>>)

\* select_and_run_models has returned.
Returned == pc \in {"selected", "publish", "deleting"} \/ (pc = "done" /\ is_ok)

\* The run has posted its report.
Published == pc = "done" /\ final_comment # <<>>

InvokedSet == {p \in Providers : calls[p] > 0}

Succeeded(p) == tasks[p] = Str(<< Label(p), ReviewText(p) >>)
Failed(p) == tasks[p].kind \in {"str", "exc"} /\ ~Succeeded(p)
Escalated(p) == tasks[p].kind = "exc"

ContainsMarker(body) == \E i \in 1..Len(body) : body[i] = HEADER_IDENTIFIER
LiveMarkerIds == {i \in 1..Len(thread) : thread[i].live /\ ContainsMarker(thread[i].body)}
LastBody == thread[Len(thread)].body
InvocationOrder == << "gemini", "openai", "claude" >>

\* C1: with small_diff_threshold <= flash_only_max_tokens, a run that has an
\* estimate c invokes all three providers iff c <= small_diff_threshold, only
\* Gemini iff small_diff_threshold < c <= flash_only_max_tokens, and no provider
\* iff c > flash_only_max_tokens; at no moment has it invoked a provider its
\* tier excludes.
C1_TierBoundaries ==
    (Sized /\ small_diff_threshold <= flash_only_max_tokens) =>
        /\ Count > small_diff_threshold => InvokedSet \subseteq {"gemini"}
        /\ Count > flash_only_max_tokens => InvokedSet = {}
        /\ pc = "done" =>
             /\ InvokedSet = Providers <=> Count <= small_diff_threshold
             /\ InvokedSet = {"gemini"} <=>
                    (small_diff_threshold < Count /\ Count <= flash_only_max_tokens)
             /\ InvokedSet = {} <=> Count > flash_only_max_tokens

\* A finished run exactly one over the small threshold and exactly at the large
\* one: only Gemini was invoked.
C1_Witness ==
    /\ pc = "done"
    /\ Count = small_diff_threshold + 1
    /\ Count = flash_only_max_tokens
    /\ InvokedSet = {"gemini"}

\* C2: in the Full tier, when at least one provider succeeds, the returned
\* sequence has one entry per provider in invocation order, and the entry of a
\* provider that failed, in whatever way, is its Failure entry.
C2_OneEntryPerProvider ==
    (Returned /\ Count <= small_diff_threshold /\ \E p \in Providers : Succeeded(p)) =>
        /\ Len(results) = 3
        /\ \A i \in 1..3 :
             LET p == InvocationOrder[i]
             IN  /\ Succeeded(p) => results[i] = Str(<< Label(p), ReviewText(p) >>)
                 /\ Failed(p) => results[i].text[1] = ErrorLabel(p)

\* C3: when every invoked provider fails, by an error result or by a raised
\* escalation error, select_and_run_models returns the empty sequence and does
\* not raise.
C3_AllFailedReturnsEmpty ==
    (Returned /\ invoked # <<>> /\ \A p \in Range(invoked) : Failed(p)) =>
        /\ results = <<>>
        /\ error = "none"

\* C4: a run in which every invoked provider fails ends normally with the fatal
\* notice as its one comment, without a call of the summarizer and without a
\* report.
C4_AllFailedFatalNotice ==
    (pc = "done" /\ is_ok /\ invoked # <<>> /\ \A p \in Range(invoked) : Failed(p)) =>
        /\ error = "none"
        /\ calls["summarizer"] = 0
        /\ calls["create_issue_comment"] = 1
        /\ LastBody = AllFailedComment
        /\ final_comment = <<>>

\* C5: once the report of a run is on the thread, comment.delete() has been
\* called on every earlier comment that contains the header marker, whatever
\* the earlier deletions did; the run has created exactly one comment, the
\* report; and no run that called delete has ended abnormally.
C5_DeleteAllThenPostOne ==
    /\ Published =>
         /\ \A i \in 1..(Len(thread) - 1) :
              ContainsMarker(thread[i].body) => \E d \in deletes : d.id = thread[i].id
         /\ calls["create_issue_comment"] = 1
         /\ LastBody = final_comment
         /\ thread[Len(thread)].live
    /\ calls["create_issue_comment"] > 0 => pc = "done"
    /\ deletes # {} => error = "none"

\* Two earlier reports; the deletion of the first failed, the second was
\* deleted, the new report is posted.
C5_Witness ==
    /\ Published
    /\ Len(thread) = 3
    /\ [id |-> 1, ok |-> FALSE] \in deletes
    /\ [id |-> 2, ok |-> TRUE] \in deletes
    /\ LastBody = final_comment

\* C6 as stated: after a run that published, exactly one comment containing the
\* header marker is live, whatever the deletions did.
C6_ExactlyOneLiveReport == Published => Cardinality(LiveMarkerIds) = 1

\* C6, amended: after a run that published, the live comments containing the
\* header marker are the new report and the earlier ones whose deletion failed;
\* there is exactly one when no deletion failed.
C6_NewReportPlusUndeleted ==
    Published =>
        /\ LiveMarkerIds = {Len(thread)} \cup {d.id : d \in {e \in deletes : ~e.ok}}
        /\ {e \in deletes : ~e.ok} = {} => Cardinality(LiveMarkerIds) = 1

\* The summarizer failed, one earlier report was deleted and the deletion of
\* another failed: two reports are live.
C6_Witness ==
    /\ Published
    /\ summarizer_outcome = "fail"
    /\ \E d \in deletes : d.ok
    /\ \E d \in deletes : ~d.ok
    /\ Cardinality(LiveMarkerIds) = 2

\* C7: a run whose estimate exceeds flash_only_max_tokens calls no provider
\* and no summarizer, deletes nothing, posts the too-large comment as its one
\* comment and is then finished.
C7_RejectedSkipsEverything ==
    (Sized /\ Count > flash_only_max_tokens) =>
        /\ InvokedSet = {}
        /\ calls["summarizer"] = 0
        /\ deletes = {}
        /\ pc \in {"checked", "done"}
        /\ pc = "checked" => calls["create_issue_comment"] = 0
        /\ pc = "done" =>
             /\ calls["create_issue_comment"] = 1
             /\ LastBody = TooLargeComment(Count)
             /\ error = "none"

C7_Witness ==
    /\ pc = "done"
    /\ Count > flash_only_max_tokens
    /\ LastBody = TooLargeComment(Count)
    /\ Len(thread) = 1

\* C8: in the CostOptimized tier OpenAI and Claude are never invoked and Gemini
\* once; the returned sequence ends with the degradation message, which follows
\* what Gemini returned; the published report contains the message.
C8_CostOptimizedGeminiPlusMessage ==
    (Sized /\ small_diff_threshold < Count /\ Count <= flash_only_max_tokens) =>
        /\ InvokedSet \subseteq {"gemini"}
        /\ calls["gemini"] <= 1
        /\ Returned =>
             /\ calls["gemini"] = 1
             /\ results # <<>>
             /\ results[Len(results)] = CostMessage(Count)
             /\ Len(results) <= 2
             /\ Len(results) = 2 => results[1] = tasks["gemini"]
             /\ ~Escalated("gemini") => Len(results) = 2
        /\ pc = "done" => Occurs(CostMessage(Count).text, LastBody)

C8_Witness ==
    /\ Published
    /\ small_diff_threshold < Count
    /\ Count <= flash_only_max_tokens
    /\ Succeeded("gemini")
    /\ results = << Str(<< Label("gemini"), ReviewText("gemini") >>), CostMessage(Count) >>

\* The texts of ss occur in t one after the other, from position k on.
RECURSIVE InOrderFrom(_, _, _)
InOrderFrom(ss, t, k) ==
    IF ss = <<>> THEN TRUE
    ELSE \E i \in k..(Len(t) - Len(Head(ss)) + 1) :
            /\ \A j \in 1..Len(Head(ss)) : t[i + j - 1] = Head(ss)[j]
            /\ InOrderFrom(Tail(ss), t, i + Len(Head(ss)))

RECURSIVE TotalLen(_)
TotalLen(ss) == IF ss = <<>> THEN 0 ELSE Len(Head(ss)) + TotalLen(Tail(ss))

\* C9: when the summarizer call fails, summarize_reviews does not raise; its
\* text starts with the header and the failure marker, and the rest holds every
\* input text, in input order, with nothing but separators between them, so
\* every input's label is in it.
C9_FallbackKeepsInputs ==
    summarizer_outcome = "fail" =>
        /\ error = "none"
        /\ pc \in {"publish", "deleting", "done"}
        /\ results # <<>>
        /\ Len(summary_report) >= 4
        /\ summary_report[1] = HEADER_IDENTIFIER
        /\ summary_report[2] = " (Error)\n"
        /\ InOrderFrom(Texts(results), summary_report, 5)
        /\ Len(summary_report) =
              4 + TotalLen(Texts(results)) + (Len(results) - 1) * Len(Separator)
        /\ \A i \in 1..Len(results) : results[i].text[1] \in Range(summary_report)

\* The summarizer failed on three inputs, one of them a provider's error text.
C9_Witness ==
    /\ summarizer_outcome = "fail"
    /\ Len(results) = 3
    /\ \E p \in Providers : Failed(p) /\ ~Escalated(p)
    /\ \E p \in Providers : Succeeded(p)

(***************************************************************************)
(* Vocabulary of the redaction property: the substrings a pattern matches. *)
(***************************************************************************)
\* Every position at which a match of pat, from element ei on, begun at
\* position k can end (one past its last token).
RECURSIVE AllEnds(_, _, _, _)
AllEnds(pat, ei, toks, k) ==
    IF ei > Len(pat) THEN {k}
    ELSE LET el == pat[ei]
             hi == Min2(RunLen(el.cls, toks, k), el.max)
         IN  UNION {AllEnds(pat, ei + 1, toks, k + n) : n \in el.min..hi}

\* << i, a, b >>: the tokens a..b of text match pattern i.
MatchingSpans(text) ==
    {sp \in (1..Len(secret_patterns)) \X (1..Len(text)) \X (1..Len(text)) :
        /\ sp[2] <= sp[3]
        /\ (sp[3] + 1) \in AllEnds(secret_patterns[sp[1]], 1, text, sp[2])}

\* The positions of the input whose token is still in the output.
Survivors(tagged) == {tagged[i].src : i \in 1..Len(tagged)} \ {0}

\* No match of an earlier pattern, and no match of the same pattern that begins
\* further left, shares a token with the span.
Unrivalled(sp, spans) ==
    \A o \in spans :
        (o[2] <= sp[3] /\ sp[2] <= o[3]) =>
            ~(o[1] < sp[1] \/ (o[1] = sp[1] /\ o[2] < sp[2]))

Redacted == pc = "checked"

\* C10 as stated: for every substring of the diff that matches a pattern, the
\* output has no occurrence of it and none of its tokens is left (the sentinel
\* stands in its place); a text without a match is returned unchanged.
C10_EveryMatchFullyReplaced ==
    Redacted =>
        LET tagged == RedactTagged(raw_diff_text)
            spans == MatchingSpans(raw_diff_text)
        IN  /\ clean_diff = Toks(tagged)
            /\ spans = {} => clean_diff = raw_diff_text
            /\ \A sp \in spans :
                 /\ ~Occurs(SubSeq(raw_diff_text, sp[2], sp[3]), clean_diff)
                 /\ \A k \in sp[2]..sp[3] : k \notin Survivors(tagged)

\* C10, amended: for every substring of the diff that matches a pattern, the
\* output has no occurrence of it and at least one of its tokens is replaced;
\* all of its tokens are replaced, by nothing but the sentinel, when no match
\* of an earlier pattern and no match of the same pattern beginning further
\* left overlaps it.  The output is the input with some tokens replaced by
\* sentinels, every replaced token lies in a matching substring, and a text
\* without a match is returned unchanged.
C10_MatchReplacedUnlessOverlapped ==
    Redacted =>
        LET tagged == RedactTagged(raw_diff_text)
            spans == MatchingSpans(raw_diff_text)
        IN  /\ clean_diff = Toks(tagged)
            /\ spans = {} => clean_diff = raw_diff_text
            /\ \A i \in 1..Len(tagged) :
                 IF tagged[i].src = 0 THEN clean_diff[i] = REDACTED_TEXT
                 ELSE clean_diff[i] = raw_diff_text[tagged[i].src]
            /\ \A i, j \in 1..Len(tagged) :
                 (i < j /\ tagged[i].src # 0 /\ tagged[j].src # 0) =>
                     tagged[i].src < tagged[j].src
            /\ \A k \in 1..Len(raw_diff_text) :
                 k \notin Survivors(tagged) =>
                     \E sp \in spans : sp[2] <= k /\ k <= sp[3]
            /\ \A sp \in spans :
                 /\ ~Occurs(SubSeq(raw_diff_text, sp[2], sp[3]), clean_diff)
                 /\ \E k \in sp[2]..sp[3] : k \notin Survivors(tagged)
                 /\ Unrivalled(sp, spans) =>
                        \A k \in sp[2]..sp[3] : k \notin Survivors(tagged)

\* A key between two plain tokens, replaced by the sentinel.
C10_Witness ==
    /\ Redacted
    /\ raw_diff_text = << "x", "AKIA", "7", "7", "x" >>
    /\ clean_diff = << "x", REDACTED_TEXT, "x" >>

\* The comments this run has created.
Created == {i \in 1..Len(thread) : i > Len(thread0)}

\* C11: the diff is collected once, before redaction; the text the run keeps
\* for outbound use is set once, to the output of redact_secrets on the
\* collected diff, before any call of a provider, of the summarizer or of
\* create_issue_comment; every request to a provider carries that text; the
\* summarizer gets the joined provider results; and what the run posts and what
\* it sends to the summarizer hold neither the diff nor the key in it: the
\* warning shows the estimate of the redacted text.
C11_RedactedBeforeOutboundUse ==
    [][ /\ raw_diff_text' # raw_diff_text => pc = "build_diff"
        /\ clean_diff' # clean_diff =>
              /\ pc = "redact"
              /\ clean_diff' = redact_secrets(raw_diff_text)
              /\ \A o \in Providers \cup {"summarizer", "create_issue_comment"} :
                    calls[o] = 0
        /\ \A p \in Providers :
              calls'[p] # calls[p] =>
                  /\ Sized
                  /\ payloads'[p] = UserContent(clean_diff)
        /\ \A p \in Providers : calls'[p] = calls[p] => payloads'[p] = payloads[p]
        /\ calls'["summarizer"] # calls["summarizer"] =>
              /\ Sized
              /\ summarizer_input' = CombinedText(results)
              /\ ~Occurs(raw_diff_text, summarizer_input')
              /\ ~Occurs(SecretPatch, summarizer_input')
        /\ Len(thread') > Len(thread) =>
              /\ Sized
              /\ ~Occurs(raw_diff_text, thread'[Len(thread')].body)
              /\ ~Occurs(SecretPatch, thread'[Len(thread')].body)
              /\ ~is_ok => thread'[Len(thread')].body =
                     TooLargeComment(EstimateTokens(clean_diff))
      ]_vars

\* A published run whose diff held a key: the three providers were sent the
\* text with the sentinel in the place of the key.
C11_Witness ==
    /\ Published
    /\ Occurs(SecretPatch, raw_diff_text)
    /\ ~Occurs(SecretPatch, clean_diff)
    /\ \A p \in Providers :
         /\ calls[p] = 1
         /\ Occurs(<< REDACTED_TEXT >>, payloads[p])
         /\ ~Occurs(SecretPatch, payloads[p])
    /\ calls["summarizer"] = 1

NetworkOps == Ops

\* C12: while a required variable is unset, the run is at its first statement
\* or has ended with the EnvironmentError that names exactly the unset ones;
\* it has made no call of the source-control service, of a provider or of the
\* summarizer, and the thread is as it was.
C12_MissingCredentialFailsFast ==
    env_missing # {} =>
        /\ pc \in {"start", "crashed"}
        /\ pc = "crashed" =>
               error = [type |-> "EnvironmentError", missing |-> env_missing]
        /\ \A o \in NetworkOps : calls[o] = 0
        /\ deletes = {}
        /\ thread = thread0

\* The run has ended on the error, two provider keys unset.
C12_Witness ==
    /\ pc = "crashed"
    /\ env_missing = {"OPENAI_API_KEY", "ANTHROPIC_API_KEY"}
    /\ error = [type |-> "EnvironmentError", missing |-> env_missing]
    /\ thread = thread0

\* get_diff leaves the file out.
SkippedFile(file) ==
    \/ file.patch = <<>>
    \/ endswith(file.filename, excluded_extensions)
    \/ endswith(file.filename, files_to_exclude)

ThreadCalls == {"create_issue_comment", "delete", "get_issue_comments"}

\* C13: a list of files that has no file, or only skipped files, gives the
\* empty diff; and when get_diff returns the empty diff the run exits normally
\* there and then, having called no provider and no summarizer and having
\* created and deleted nothing; a run that has exited takes no further step.
C13_EmptyDiffIsNoOp ==
    [][ /\ pc # "done"
        /\ (pc = "build_diff" /\ \A i \in 1..Len(pr_files) : SkippedFile(pr_files[i])) =>
               raw_diff_text' = <<>>
        /\ (pc = "build_diff" /\ raw_diff_text' = <<>>) =>
               /\ \A i \in 1..Len(pr_files) : SkippedFile(pr_files[i])
               /\ pc' = "done"
               /\ error' = "none"
               /\ \A o \in Providers \cup {"summarizer"} \cup ThreadCalls : calls'[o] = 0
               /\ deletes' = {}
               /\ thread' = thread0
      ]_vars

\* The run exited on the empty diff of a denylisted file, the thread with its
\* earlier report untouched.
C13_Witness ==
    /\ pc = "done"
    /\ calls["get_files"] = 1
    /\ raw_diff_text = <<>>
    /\ thread0 # <<>>
    /\ thread = thread0
    /\ \A o \in Providers \cup {"summarizer"} \cup ThreadCalls : calls[o] = 0

\* The entries of provider p in a text: its label, plain or with the error mark.
EntriesOf(p, text) == {i \in 1..Len(text) : text[i] \in {Label(p), ErrorLabel(p)}}

\* The collapsible section of the report.
RawSection(body) ==
    LET open == CHOOSE i \in 1..Len(body) : body[i] = "<details>"
    IN  SubSeq(body, open, Len(body))

\* C14: in the report a run has published, the collapsible section has exactly
\* one entry for each invoked provider: the review text of one that succeeded,
\* the error entry of one that failed, in whatever way.
C14_RawSectionListsEveryProvider ==
    Published =>
        \A p \in InvokedSet :
            LET section == RawSection(LastBody)
            IN  /\ Cardinality(EntriesOf(p, section)) = 1
                /\ Succeeded(p) => Occurs(<< Label(p), ReviewText(p) >>, section)
                /\ Failed(p) => ErrorLabel(p) \in Range(section)

Ended(p) == tasks[p].kind \in {"str", "exc"}
NoneHung == \A p \in Providers : tasks[p] # Hung

\* C15: in a run whose credentials are set, nothing a provider call ends with
\* ends the run abnormally.  While the calls are gathered and none is left
\* unanswered, a provider not yet called can still be called whatever the
\* others ended with, and gather returns once all have ended; when
\* select_and_run_models has returned, every invoked provider's call has ended
\* and every string a call returned is in the results; main then goes on, step
\* by step, to its exit, where it has posted exactly one comment.
C15_ProviderFailureDoesNotAbort ==
    /\ pc = "crashed" => env_missing # {}
    /\ pc # "crashed" => error = "none"
    /\ (pc = "gather" /\ NoneHung) =>
           /\ \A p \in Range(invoked) : tasks[p] = Pending => ENABLED Ask(p)
           /\ (\A p \in Range(invoked) : Ended(p)) => ENABLED GatherReturn
    /\ Returned =>
           /\ \A p \in Range(invoked) : Ended(p)
           /\ \A p \in Range(invoked) :
                  tasks[p].kind = "str" => \E i \in 1..Len(results) : results[i] = tasks[p]
           /\ pc # "done" => ENABLED Next
           /\ pc = "done" => calls["create_issue_comment"] = 1

\* A published run in which Gemini raised, OpenAI returned its error text and
\* Claude its review: the two returned strings are the results.
C15_Witness ==
    /\ Published
    /\ Escalated("gemini")
    /\ tasks["openai"] = Str(<< ErrorLabel("openai"), ErrorDetail("openai") >>)
    /\ Succeeded("claude")
    /\ results = << tasks["openai"], tasks["claude"] >>
    /\ calls["create_issue_comment"] = 1

\* C16: the text sent to the summarizer holds the review of every provider that
\* succeeded and no entry of a provider that failed, while the entry of a
\* provider that returned its error is in the results handed on to
\* create_final_comment.
C16_SummarizerGetsSuccessesOnly ==
    calls["summarizer"] > 0 =>
        \A p \in Range(invoked) :
            /\ Succeeded(p) => Occurs(<< Label(p), ReviewText(p) >>, summarizer_input)
            /\ Failed(p) => ErrorLabel(p) \notin Range(summarizer_input)
            /\ (Failed(p) /\ ~Escalated(p)) =>
                   \E i \in 1..Len(results) : results[i] = tasks[p]

\* The strings the invoked providers returned, in invocation order.
ReturnedInOrder ==
    SelectSeq([i \in 1..Len(invoked) |-> tasks[invoked[i]]], LAMBDA r : r.kind = "str")

IsPrefix(s, t) == Len(s) <= Len(t) /\ SubSeq(t, 1, Len(s)) = s

\* C17: whatever the order in which the provider calls end, the run leaves the
\* gathering only when the call of every invoked provider has ended, each
\* called once; the results it leaves with begin with the returned strings of
\* all of them in invocation order (the entry of a call that raised is not
\* among them), followed by nothing but the cost notice; and the summarizer is
\* called after that, on the join of the whole result sequence.
C17_BarrierBeforeSummarizer ==
    [][ /\ (pc = "gather" /\ pc' # "gather") =>
               /\ \A p \in Range(invoked) : Ended(p) /\ calls[p] = 1
               /\ IsPrefix(ReturnedInOrder, results')
               /\ Len(results') <= Len(ReturnedInOrder) + 1
               /\ UNCHANGED tasks
        /\ results' # results => pc = "gather"
        /\ calls'["summarizer"] # calls["summarizer"] =>
               /\ pc = "selected"
               /\ \A p \in Range(invoked) : Ended(p)
               /\ \A p \in Providers \ Range(invoked) : calls[p] = 0
               /\ IsPrefix(ReturnedInOrder, results)
               /\ summarizer_input' = Join(Separator, Texts(results))
               /\ UNCHANGED << tasks, results >>
      ]_vars

\* The summarizer has been called in a run whose three provider calls ended as
\* review, raised error and returned error: its input is the two returned
\* entries, Gemini's before Claude's.
C17_Witness ==
    /\ calls["summarizer"] = 1
    /\ Succeeded("gemini")
    /\ Escalated("openai")
    /\ tasks["claude"] = Str(<< ErrorLabel("claude"), ErrorDetail("claude") >>)
    /\ results = << tasks["gemini"], tasks["claude"] >>
    /\ summarizer_input = tasks["gemini"].text \o Separator \o tasks["claude"].text

\* C18: a run that gathers the provider calls is never left waiting: no call
\* stays unanswered, and at every moment a provider can be called or gather
\* can return, so the run goes on to its exit.
C18_UnansweredCallIsCutOff ==
    pc = "gather" =>
        /\ \A p \in Providers : tasks[p] # Hung
        /\ ENABLED (ask_gemini \/ ask_openai \/ ask_claude \/ GatherReturn)

\* C19: a run calls create_issue_comment at most once and is at its exit, with
\* no step left, once it has; a run that exits normally after collecting a
\* non-empty diff has called it exactly once, with the warning, the fatal
\* notice or the report, and the thread is one comment longer; each provider is
\* called at most once, the summarizer at most once and only on a non-empty
\* result sequence.
C19_OneCommentLast ==
    /\ calls["create_issue_comment"] <= 1
    /\ calls["create_issue_comment"] = 1 => (pc = "done" /\ ~ENABLED Next)
    /\ (pc = "done" /\ raw_diff_text # <<>>) =>
           /\ calls["create_issue_comment"] = 1
           /\ Len(thread) = Len(thread0) + 1
           /\ LastBody = (IF ~is_ok THEN TooLargeComment(token_count)
                          ELSE IF results = <<>> THEN AllFailedComment
                          ELSE final_comment)
    /\ \A p \in Providers : calls[p] <= 1
    /\ calls["summarizer"] <= 1
    /\ calls["summarizer"] = 1 => results # <<>>
    /\ (Returned /\ results = <<>>) => calls["summarizer"] = 0

\* The run exited on the fatal notice: three provider calls, no summarizer
\* call, one comment.
C19_Witness ==
    /\ pc = "done"
    /\ \A p \in Providers : calls[p] = 1
    /\ results = <<>>
    /\ calls["summarizer"] = 0
    /\ calls["create_issue_comment"] = 1
    /\ LastBody = AllFailedComment

\* The run is past the summarizer, on its way to the report.
OnPublicationPath ==
    /\ pc \in {"deleting", "done"}
    /\ is_ok
    /\ results # <<>>
    /\ calls["summarizer"] = 1

\* C20: comment.delete() is called, and the comments are listed, only by a run
\* that is past the summarizer on its way to the report; a run that exits on
\* the warning or on the fatal notice has deleted nothing, the earlier comments
\* are all as they were and live, the notice after them; and on every path a
\* comment that is no longer live, or that delete() was called on, holds the
\* header marker, and no comment's text changes.
C20_DeleteOnlyWhenPublishing ==
    /\ (deletes # {} \/ calls["delete"] > 0 \/ calls["get_issue_comments"] > 0) =>
           OnPublicationPath
    /\ (pc = "done" /\ raw_diff_text # <<>> /\ (~is_ok \/ results = <<>>)) =>
           /\ deletes = {}
           /\ calls["delete"] = 0
           /\ SubSeq(thread, 1, Len(thread0)) = thread0
           /\ \A i \in 1..Len(thread0) : thread[i].live
           /\ Len(thread) = Len(thread0) + 1
    /\ \A d \in deletes : d.id \in 1..Len(thread0) /\ ContainsMarker(thread0[d.id].body)
    /\ \A i \in 1..Len(thread0) :
           /\ thread[i].body = thread0[i].body
           /\ ~thread[i].live =>
                  /\ ContainsMarker(thread0[i].body)
                  /\ [id |-> i, ok |-> TRUE] \in deletes

\* The run exited on the fatal notice on a thread that had an earlier report
\* and a plain comment: both are live, the notice is the third comment.
C20_Witness ==
    /\ pc = "done"
    /\ is_ok
    /\ results = <<>>
    /\ Len(thread0) = 2
    /\ thread0[1].body = OldReport
    /\ thread0[2].body = << "LGTM" >>
    /\ Len(thread) = 3
    /\ thread[1].live /\ thread[2].live
    /\ thread[3].body = AllFailedComment
    /\ deletes = {}

====
